---- MODULE Spec2Model ----
(***************************************************************************)
(* Range/CIDR algebra of the netaddr crate: IPAddress, IPNetwork, IPRange, *)
(* merge_ranges and IPSet (src/src/ip/*.rs, src/src/sets.rs).              *)
(*                                                                         *)
(* The address widths are scaled down: an IPv4 address is a Bits4-bit      *)
(* unsigned integer (u32 in the source) and an IPv6 address a Bits6-bit    *)
(* unsigned integer (u128 in the source).  All arithmetic is done modulo   *)
(* 2^Bits, as the fixed-width integer types of the source do.  Bits6 is    *)
(* larger than Bits4 because the source sums IPv4 sizes in a u128.         *)
(*                                                                         *)
(* The crate has no build profile of its own, so arithmetic overflow has   *)
(* two outcomes: with overflow checks (debug profile) the operation        *)
(* panics, without them (release profile) it wraps.  The variable          *)
(* overflow_checks is chosen in Init and never changes.                    *)
(***************************************************************************)
EXTENDS Integers, Sequences, FiniteSets, TLC

VARIABLES
    overflow_checks,  \* TRUE: arithmetic overflow panics; FALSE: it wraps
    ranges,           \* IPSet.ranges of the set under test
    ref,              \* the plain set of addresses the operations describe
    status,           \* "ok", or "panic" once an operation has panicked
    last_op,          \* kind of the last operation on ranges
    set_b,            \* IPSet.ranges of a second set (set algebra)
    arg,              \* the argument of merge_ranges
    result,           \* the result of merge_ranges, wrapped: <<result>>
    tc,               \* the frame of a running to_cidrs call
    in_network,       \* the argument of the network functions
    out               \* their result

vars == <<overflow_checks, ranges, ref, status, last_op, set_b, arg, result, tc,
          in_network, out>>

\* Scaled width of u32 (IPv4) and of u128 (IPv6).
Bits4 == 3
Bits6 == 4
\* Inputs of the IPSet and merge_ranges specifications have their endpoints
\* within MaxEdge addresses of either end of the address space.
MaxEdge == 2
\* Longest argument list of merge_ranges.
MaxLen == 3
\* Most add_range/remove_range calls that build each operand of the set algebra.
MaxBuild == 2
\* The longest list of networks given to cidr_merge.
MaxNets == 2
\* How far beyond the address width the prefix lengths given to IPNetwork::new go.
MaxOver == 2

----------------------------------------------------------------------------
(* Fixed-width unsigned integers *)

Bits(version) == IF version = 4 THEN Bits4 ELSE Bits6

Modulus(version) == 2 ^ Bits(version)

MaxValue(version) == Modulus(version) - 1

RECURSIVE BitAnd(_, _)
BitAnd(a, b) ==
    IF a = 0 \/ b = 0 THEN 0
    ELSE (a % 2) * (b % 2) + 2 * BitAnd(a \div 2, b \div 2)

BitNot(a, version) == MaxValue(version) - a

BitOr(a, b) == a + b - BitAnd(a, b)

\* x << n on a fixed-width unsigned integer: bits shifted out are lost.
Shl(x, n, version) == (x * (2 ^ n)) % Modulus(version)

RECURSIVE trailing_zeros(_, _)
trailing_zeros(x, version) ==
    IF x = 0 THEN Bits(version)
    ELSE IF x % 2 = 1 THEN 0
    ELSE 1 + trailing_zeros(x \div 2, version)

----------------------------------------------------------------------------
(* IPAddress *)

Versions == {4, 6}

IPAddress(version, value) == [version |-> version, value |-> value]

Addresses(version) == {IPAddress(version, v) : v \in 0 .. MaxValue(version)}

AllAddresses == Addresses(4) \cup Addresses(6)

\* Option::None of an Option<IPAddress>.
None == [version |-> 0, value |-> 0]

\* impl Ord for IPAddress: version first (4 before 6), then the integer.
AddrLess(a, b) ==
    \/ a.version < b.version
    \/ a.version = b.version /\ a.value < b.value

AddrLeq(a, b) == a = b \/ AddrLess(a, b)

AddrMax(a, b) == IF AddrLess(a, b) THEN b ELSE a

AddrMin(a, b) == IF AddrLess(b, a) THEN b ELSE a

\* next that wraps from the highest address to address 0.
next_wrapping(a) == IPAddress(a.version, (a.value + 1) % Modulus(a.version))

next(a) ==
    IF a.value = MaxValue(a.version) THEN None
    ELSE IPAddress(a.version, a.value + 1)

prev(a) ==
    IF a.value = 0 THEN None
    ELSE IPAddress(a.version, a.value - 1)

----------------------------------------------------------------------------
(* IPRange *)

IPRange(start, end) == [start |-> start, end |-> end]

\* The ranges IPRange::new accepts.
WellFormed(r) == r.start.version = r.end.version /\ AddrLeq(r.start, r.end)

Ranges(version) ==
    {IPRange(s, e) : <<s, e>> \in
        {p \in Addresses(version) \X Addresses(version) : AddrLeq(p[1], p[2])}}

AllRanges == Ranges(4) \cup Ranges(6)

RangeAddrs(r) == {a \in Addresses(r.start.version) : AddrLeq(r.start, a) /\ AddrLeq(a, r.end)}

contains(r, a) ==
    IF r.start.version # a.version THEN FALSE
    ELSE AddrLeq(r.start, a) /\ AddrLeq(a, r.end)

overlaps(r, other) ==
    IF r.start.version # other.start.version THEN FALSE
    ELSE AddrLeq(r.start, other.end) /\ AddrLeq(other.start, r.end)

\* intersection with the larger end taken instead of the smaller.
intersection_max_end(r, other) ==
    IF ~overlaps(r, other) THEN <<>>
    ELSE <<IPRange(AddrMax(r.start, other.start), AddrMax(r.end, other.end))>>

\* IPRange::intersection: None is the empty sequence, Some(x) is <<x>>.
intersection(r, other) ==
    IF ~overlaps(r, other) THEN <<>>
    ELSE <<IPRange(AddrMax(r.start, other.start), AddrMin(r.end, other.end))>>

\* impl Ord for IPRange: by start, then by end.
RangeLess(r, s) ==
    \/ AddrLess(r.start, s.start)
    \/ r.start = s.start /\ AddrLess(r.end, s.end)

RangeLeq(r, s) == r = s \/ RangeLess(r, s)

----------------------------------------------------------------------------
(* merge_ranges *)

RECURSIVE SelectSeq2(_, _)
SelectSeq2(s, version) ==
    IF s = <<>> THEN <<>>
    ELSE IF Head(s).start.version = version
         THEN <<Head(s)>> \o SelectSeq2(Tail(s), version)
         ELSE SelectSeq2(Tail(s), version)

\* MergeSweep that also takes a range ending at the highest address as
\* adjacent to an accumulator starting at address 0.
RECURSIVE MergeSweep_wraparound(_, _, _)
MergeSweep_wraparound(current, rest, merged) ==
    IF rest = <<>> THEN Append(merged, current)
    ELSE LET range == Head(rest)
             current_end_next == next(current.end)
         IN IF \/ AddrLeq(range.start, current.end)
               \/ range.start = current_end_next
               \/ (next(range.end) = None /\ prev(current.start) = None)
            THEN IF AddrLess(current.end, range.end)
                 THEN MergeSweep_wraparound(IPRange(current.start, range.end), Tail(rest), merged)
                 ELSE MergeSweep_wraparound(current, Tail(rest), merged)
            ELSE MergeSweep_wraparound(range, Tail(rest), Append(merged, current))

\* MergeSweep with the end of the accumulator overwritten on every merge,
\* without the test range.end > current.end.
RECURSIVE MergeSweep_overwrite(_, _, _)
MergeSweep_overwrite(current, rest, merged) ==
    IF rest = <<>> THEN Append(merged, current)
    ELSE LET range == Head(rest)
             current_end_next == next(current.end)
         IN IF AddrLeq(range.start, current.end) \/ range.start = current_end_next
            THEN MergeSweep_overwrite(IPRange(current.start, range.end), Tail(rest), merged)
            ELSE MergeSweep_overwrite(range, Tail(rest), Append(merged, current))

\* The sweep over one sorted partition: current is the accumulator, rest the
\* ranges still to visit, merged the ranges flushed so far.
RECURSIVE MergeSweep(_, _, _)
MergeSweep(current, rest, merged) ==
    IF rest = <<>> THEN Append(merged, current)
    ELSE LET range == Head(rest)
             current_end_next == next(current.end)
         IN IF AddrLeq(range.start, current.end) \/ range.start = current_end_next
            THEN IF AddrLess(current.end, range.end)
                 THEN MergeSweep(IPRange(current.start, range.end), Tail(rest), merged)
                 ELSE MergeSweep(current, Tail(rest), merged)
            ELSE MergeSweep(range, Tail(rest), Append(merged, current))

\* MergePartition that compares each range with its predecessor only, the
\* accumulator never growing past one merge.
RECURSIVE MergePartition_pairs(_)
MergePartition_pairs(sorted) ==
    IF Len(sorted) < 2 THEN sorted
    ELSE LET current == sorted[1]
             range == sorted[2]
         IN IF AddrLeq(range.start, current.end) \/ range.start = next(current.end)
            THEN <<IPRange(current.start, AddrMax(current.end, range.end))>>
                 \o MergePartition_pairs(SubSeq(sorted, 3, Len(sorted)))
            ELSE <<current>> \o MergePartition_pairs(Tail(sorted))

MergePartition(sorted) ==
    IF sorted = <<>> THEN <<>>
    ELSE MergeSweep(Head(sorted), Tail(sorted), <<>>)

merge_ranges(X) ==
    IF X = <<>> THEN <<>>
    ELSE LET ipv4_ranges == SortSeq(SelectSeq2(X, 4), RangeLess)
             ipv6_ranges == SortSeq(SelectSeq2(X, 6), RangeLess)
         IN SortSeq(MergePartition(ipv4_ranges) \o MergePartition(ipv6_ranges), RangeLess)

----------------------------------------------------------------------------
(* IPNetwork *)

IPNetwork_raw(addr, prefix_length) ==
    [network_address |-> addr, prefix_length |-> prefix_length]

\* normalize_network_address with the IPv6 arm leaving the address as it is.
normalize_network_address_ipv4_only(addr, prefix_length) ==
    IF prefix_length = 0 THEN IPAddress(addr.version, 0)
    ELSE IF addr.version = 4
         THEN LET mask == Shl(MaxValue(4), Bits4 - prefix_length, 4)
              IN IPAddress(4, BitAnd(addr.value, mask))
         ELSE addr

\* normalize_network_address: clear the host bits.  The IPv4 branch shifts
\* !0u32 left, the IPv6 branch builds !((1 << shift) - 1).
normalize_network_address(addr, prefix_length) ==
    IF prefix_length = 0 THEN IPAddress(addr.version, 0)
    ELSE IF addr.version = 4
         THEN LET mask == Shl(MaxValue(4), Bits4 - prefix_length, 4)
              IN IPAddress(4, BitAnd(addr.value, mask))
         ELSE LET shift == Bits6 - prefix_length
                  mask == IF shift >= Bits6 THEN 0
                          ELSE BitNot(Shl(1, shift, 6) - 1, 6)
              IN IPAddress(6, BitAnd(addr.value, mask))

\* IPNetwork::new for a prefix length within the address width (a larger
\* prefix length is an Err).
IPNetwork_new(addr, prefix_length) ==
    IPNetwork_raw(normalize_network_address(addr, prefix_length), prefix_length)

\* IPNetwork::new as a call: Err for a prefix length beyond the address width,
\* else Ok with the normalized network; the value is <<>> or <<network>>.
IPNetwork_new_result(addr, prefix_length) ==
    IF prefix_length > Bits(addr.version)
    THEN [outcome |-> "err", value |-> <<>>]
    ELSE [outcome |-> "ok", value |-> <<IPNetwork_new(addr, prefix_length)>>]

Networks(version) ==
    {IPNetwork_new(a, p) : <<a, p>> \in Addresses(version) \X (0 .. Bits(version))}

AllNetworks == Networks(4) \cup Networks(6)

\* 1 << host_bits on the address type.  A shift by the full width is an
\* overflow: a panic with overflow checks, else the shift amount is masked to
\* the width and the value is 1 << 0.
ShlOne(host_bits, version, checks) ==
    IF host_bits >= Bits(version)
    THEN [panic |-> checks, value |-> Shl(1, host_bits % Bits(version), version)]
    ELSE [panic |-> FALSE, value |-> Shl(1, host_bits, version)]

\* broadcast_address of an IPv4 network.
broadcast_address(network, checks) ==
    LET host_bits == Bits4 - network.prefix_length
        one == ShlOne(host_bits, 4, checks)
    IN [panic |-> one.panic,
        value |-> IPAddress(4, BitOr(network.network_address.value, one.value - 1))]

\* last_host of an IPv6 network.
last_host_v6(network, checks) ==
    LET host_bits == Bits6 - network.prefix_length
        one == ShlOne(host_bits, 6, checks)
    IN [panic |-> one.panic,
        value |-> IPAddress(6, BitOr(network.network_address.value, one.value - 1))]

\* The range [network_address, end] that add_network, remove_network,
\* from_network and cidrs_to_ranges build from a network.
network_range(network, checks) ==
    LET end == IF network.network_address.version = 4
               THEN broadcast_address(network, checks)
               ELSE last_host_v6(network, checks)
    IN [panic |-> end.panic, value |-> IPRange(network.network_address, end.value)]

----------------------------------------------------------------------------
(* IPSet: a BTreeSet<IPRange>, modelled as a set of ranges; iteration is in *)
(* the order of RangeLess.                                                  *)

RECURSIVE iter(_)
iter(S) ==
    IF S = {} THEN <<>>
    ELSE LET m == CHOOSE x \in S : \A y \in S : RangeLeq(x, y)
         IN <<m>> \o iter(S \ {m})

SeqToSet(s) == {s[i] : i \in 1 .. Len(s)}

ranges_adjacent(range1, range2) ==
    IF range1.start.version # range2.start.version THEN FALSE
    ELSE LET next1 == next(range1.end)
             next2 == next(range2.end)
         IN IF next1 # None /\ next2 # None
            THEN range2.start = next1 \/ range1.start = next2
            ELSE FALSE

add_range(S, range) ==
    LET to_remove == {e \in S : overlaps(e, range) \/ ranges_adjacent(e, range)}
        merged_ranges == Append(iter(to_remove), range)
        final_ranges == merge_ranges(merged_ranges)
    IN (S \ to_remove) \cup SeqToSet(final_ranges)

\* remove_pieces with the piece before the removed range ending at the start
\* of the removed range instead of at its predecessor.
remove_pieces_keep_start(existing_range, range_to_remove) ==
    IF ~overlaps(existing_range, range_to_remove) THEN {existing_range}
    ELSE (IF AddrLess(existing_range.start, range_to_remove.start)
          THEN {IPRange(existing_range.start, range_to_remove.start)}
          ELSE {})
         \cup
         (IF AddrLess(range_to_remove.end, existing_range.end)
          THEN {IPRange(next(range_to_remove.end), existing_range.end)}
          ELSE {})

\* remove_pieces without the piece after the removed range.
remove_pieces_drop_after(existing_range, range_to_remove) ==
    IF ~overlaps(existing_range, range_to_remove) THEN {existing_range}
    ELSE IF AddrLess(existing_range.start, range_to_remove.start)
         THEN {IPRange(existing_range.start, prev(range_to_remove.start))}
         ELSE {}

\* The pieces of existing_range that remove_range keeps.  prev/next give None
\* only at the ends of the address space, where the guards are false.
remove_pieces(existing_range, range_to_remove) ==
    IF ~overlaps(existing_range, range_to_remove) THEN {existing_range}
    ELSE (IF AddrLess(existing_range.start, range_to_remove.start)
          THEN {IPRange(existing_range.start, prev(range_to_remove.start))}
          ELSE {})
         \cup
         (IF AddrLess(range_to_remove.end, existing_range.end)
          THEN {IPRange(next(range_to_remove.end), existing_range.end)}
          ELSE {})

remove_range(S, range_to_remove) ==
    UNION {remove_pieces(e, range_to_remove) : e \in S}

contains_address(S, addr) == \E r \in S : contains(r, addr)

contains_range(S, range_to_check) ==
    \E range \in S : contains(range, range_to_check.start) /\ contains(range, range_to_check.end)

\* IPSet::contains_network: [panic, value].
contains_network(S, network, checks) ==
    LET r == network_range(network, checks)
    IN [panic |-> r.panic,
        value |-> \E range \in S : contains(range, r.value.start) /\ contains(range, r.value.end)]

\* compact: the stored ranges replaced by merge_ranges of them.
compact(S) == SeqToSet(merge_ranges(iter(S)))

\* Fold f over the ranges of a sequence, starting from acc.
RECURSIVE add_all(_, _)
add_all(acc, s) ==
    IF s = <<>> THEN acc ELSE add_all(add_range(acc, Head(s)), Tail(s))

RECURSIVE remove_all(_, _)
remove_all(acc, s) ==
    IF s = <<>> THEN acc ELSE remove_all(remove_range(acc, Head(s)), Tail(s))

union(A, B) == add_all(A, iter(B))

difference(A, B) == remove_all(A, iter(B))

\* The pairs (range1, range2) in the order of the nested loops.
RECURSIVE pair_intersections(_, _)
pair_intersections(sa, sb) ==
    IF sa = <<>> THEN <<>>
    ELSE LET row == [j \in 1 .. Len(sb) |-> intersection(Head(sa), sb[j])]
             RECURSIVE flat(_)
             flat(k) == IF k > Len(row) THEN <<>> ELSE row[k] \o flat(k + 1)
         IN flat(1) \o pair_intersections(Tail(sa), sb)

set_intersection(A, B) == add_all({}, pair_intersections(iter(A), iter(B)))

\* symmetric_difference with only the ranges of other taken out of the union.
symmetric_difference_minus_other(A, B) == difference(union(A, B), B)

\* self.union(other), then .difference of self.intersection(other).
symmetric_difference(A, B) == difference(union(A, B), set_intersection(A, B))

is_empty(S) == S = {}

\* is_subset with the difference taken the other way round.
is_subset_reversed(A, B) == is_empty(difference(B, A))

is_subset(A, B) == is_empty(difference(A, B))

is_superset(A, B) == is_subset(B, A)

----------------------------------------------------------------------------
(* IPRange::size and IPSet::size *)

\* end - start + 1 on the address type: the addition overflows for the range
\* that covers the whole address space.
range_size(r, checks) ==
    LET span == r.end.value - r.start.value
        version == r.start.version
    IN [panic |-> checks /\ span = MaxValue(version),
        value |-> (span + 1) % Modulus(version)]

\* Iterator::sum over u128: overflow panics with overflow checks, else wraps.
RECURSIVE sum_sizes(_, _, _)
sum_sizes(s, acc, checks) ==
    IF s = <<>> THEN acc
    ELSE LET sz == range_size(Head(s), checks)
             total == acc.value + sz.value
         IN sum_sizes(Tail(s),
                      [panic |-> acc.panic \/ sz.panic \/ (checks /\ total >= Modulus(6)),
                       value |-> total % Modulus(6)],
                      checks)

size(S, checks) == sum_sizes(iter(S), [panic |-> FALSE, value |-> 0], checks)

----------------------------------------------------------------------------
(* IPRange::to_cidrs, as a machine over the frame                           *)
(*   [pc, version, start, current, end, n, power, maxblock, cidrs]          *)
(* pc names the loop the call is in; n is the argument of the block-size    *)
(* search in progress, power its loop variable (maxsize in maxblock_ipv4,   *)
(* power in largest_power_of_2_le and largest_power_of_2_le_u128).          *)

\* No list of CIDR blocks of a range has more blocks than there are addresses.
MaxBlocks == 2 ^ Bits6

to_cidrs_start(range) ==
    [pc |-> "main", version |-> range.start.version, start |-> range.start.value,
     current |-> range.start.value, end |-> range.end.value,
     n |-> 0, power |-> 0, maxblock |-> 0, cidrs |-> <<>>]

Panicked(f) == [f EXCEPT !.pc = "panicked"]

\* Head of the main loop: while current <= end { remaining = end - current + 1
MainStep(f, checks) ==
    IF f.current > f.end THEN [f EXCEPT !.pc = "returned"]
    ELSE LET span == f.end - f.current
             remaining == (span + 1) % Modulus(f.version)
         IN IF checks /\ span = MaxValue(f.version) THEN Panicked(f)
            ELSE IF f.version = 4
                 THEN [f EXCEPT !.pc = "maxblock", !.n = remaining, !.power = 1]
                 ELSE IF remaining = 0
                      THEN [f EXCEPT !.pc = "align", !.maxblock = 0]
                      ELSE [f EXCEPT !.pc = "pow2", !.n = remaining, !.power = 1]

\* maxblock_ipv4: while maxsize <= max_size && (address & (maxsize - 1)) == 0
\*                    { maxsize <<= 1 }   maxsize >> 1
\* followed by the entry of largest_power_of_2_le on the result.
MaxblockStep(f, checks) ==
    IF f.power > f.n
    THEN LET maxsize == f.power \div 2
         IN IF maxsize = 0 THEN [f EXCEPT !.pc = "emit", !.maxblock = 0]
            ELSE [f EXCEPT !.pc = "pow2", !.n = maxsize, !.power = 1]
    ELSE IF f.power = 0 /\ checks THEN Panicked(f)
    ELSE IF BitAnd(f.current, (f.power + MaxValue(4)) % Modulus(4)) = 0
         THEN [f EXCEPT !.power = Shl(f.power, 1, 4)]
         ELSE LET maxsize == f.power \div 2
              IN IF maxsize = 0 THEN [f EXCEPT !.pc = "emit", !.maxblock = 0]
                 ELSE [f EXCEPT !.pc = "pow2", !.n = maxsize, !.power = 1]

\* largest_power_of_2_le / _u128: while power <= n { power <<= 1 }  power >> 1
Pow2Step(f) ==
    IF f.power <= f.n THEN [f EXCEPT !.power = Shl(f.power, 1, f.version)]
    ELSE [f EXCEPT !.pc = IF f.version = 4 THEN "emit" ELSE "align",
                   !.maxblock = f.power \div 2]

\* IPv6: aligned_current = current & !(maxblock - 1)
AlignStep(f, checks) ==
    IF f.maxblock = 0 /\ checks THEN Panicked(f)
    ELSE LET mask == BitNot((f.maxblock + MaxValue(6)) % Modulus(6), 6)
             aligned_current == BitAnd(f.current, mask)
         IN IF aligned_current # f.current
            THEN IF f.current - aligned_current = 0
                 THEN [f EXCEPT !.pc = "emit_small", !.maxblock = 0]
                 ELSE [f EXCEPT !.pc = "pow2_small", !.n = f.current - aligned_current,
                                !.power = 1]
            ELSE [f EXCEPT !.pc = "emit"]

\* IPv6: smaller_block = largest_power_of_2_le_u128(current - aligned_current)
Pow2SmallStep(f) ==
    IF f.power <= f.n THEN [f EXCEPT !.power = Shl(f.power, 1, 6)]
    ELSE [f EXCEPT !.pc = "emit_small", !.maxblock = f.power \div 2]

PushNetwork(f) ==
    Append(f.cidrs,
           IPNetwork_new(IPAddress(f.version, f.current),
                         Bits(f.version) - trailing_zeros(f.maxblock, f.version)))

\* cidrs.push(network); current += maxblock; if current == 0 { break }
EmitStep(f, checks) ==
    IF Len(f.cidrs) >= MaxBlocks THEN f
    ELSE LET sum == f.current + f.maxblock
             current == sum % Modulus(f.version)
         IN IF checks /\ sum >= Modulus(f.version)
            THEN [f EXCEPT !.pc = "panicked", !.cidrs = PushNetwork(f)]
            ELSE [f EXCEPT !.pc = IF current = 0 THEN "returned" ELSE "main",
                           !.current = current, !.cidrs = PushNetwork(f)]

\* IPv6: cidrs.push(network); current += smaller_block; continue
EmitSmallStep(f, checks) ==
    IF Len(f.cidrs) >= MaxBlocks THEN f
    ELSE LET sum == f.current + f.maxblock
         IN IF checks /\ sum >= Modulus(f.version)
            THEN [f EXCEPT !.pc = "panicked", !.cidrs = PushNetwork(f)]
            ELSE [f EXCEPT !.pc = "main", !.current = sum % Modulus(f.version),
                           !.cidrs = PushNetwork(f)]

to_cidrs_step(f, checks) ==
    CASE f.pc = "main" -> MainStep(f, checks)
      [] f.pc = "maxblock" -> MaxblockStep(f, checks)
      [] f.pc = "pow2" -> Pow2Step(f)
      [] f.pc = "align" -> AlignStep(f, checks)
      [] f.pc = "pow2_small" -> Pow2SmallStep(f)
      [] f.pc = "emit" -> EmitStep(f, checks)
      [] f.pc = "emit_small" -> EmitSmallStep(f, checks)
      [] OTHER -> f

\* The call run to its end.  It neither returns nor panics ("diverged") when
\* a step leaves the frame unchanged, or when the main loop comes back to its
\* head with the cursor where it was at the head before (last_head): the same
\* iteration then repeats for ever.
RECURSIVE to_cidrs_run(_, _, _)
to_cidrs_run(f, checks, last_head) ==
    IF f.pc \in {"returned", "panicked"} THEN f
    ELSE IF f.pc = "main" /\ f.current = last_head THEN [f EXCEPT !.pc = "diverged"]
    ELSE LET g == to_cidrs_step(f, checks)
         IN IF g = f THEN [f EXCEPT !.pc = "diverged"]
            ELSE to_cidrs_run(g, checks, IF f.pc = "main" THEN f.current ELSE last_head)

\* to_cidrs as a function: [outcome, cidrs].
to_cidrs(range, checks) ==
    LET f == to_cidrs_run(to_cidrs_start(range), checks, -1)
    IN [outcome |-> f.pc, cidrs |-> f.cidrs]

----------------------------------------------------------------------------
(* IPNetwork predicates and the functions of operations.rs.  A call gives   *)
(* [outcome, value]: outcome is "ok" (Ok), "err" (Err), "panicked" or       *)
(* "diverged" (the call never returns).                                     *)

Result(outcome, value) == [outcome |-> outcome, value |-> value]

\* IPNetwork::contains(addr): [panic, value].  The IPv4 arm shifts !0u32 by
\* 32 - prefix_length, the full width for prefix length 0: a panic with
\* overflow checks, else the shift amount is masked and the mask is !0.
network_contains(network, addr, checks) ==
    IF network.network_address.version # addr.version
    THEN [panic |-> FALSE, value |-> FALSE]
    ELSE IF addr.version = 4
         THEN LET shift == Bits4 - network.prefix_length
                  mask == Shl(MaxValue(4), shift % Bits4, 4)
              IN [panic |-> checks /\ shift >= Bits4,
                  value |-> BitAnd(network.network_address.value, mask)
                              = BitAnd(addr.value, mask)]
         ELSE LET shift == Bits6 - network.prefix_length
                  mask == IF shift >= Bits6 THEN 0
                          ELSE BitNot(Shl(1, shift, 6) - 1, 6)
              IN [panic |-> FALSE,
                  value |-> BitAnd(network.network_address.value, mask)
                              = BitAnd(addr.value, mask)]

network_contains_network(network, other, checks) ==
    IF network.network_address.version # other.network_address.version
    THEN [panic |-> FALSE, value |-> FALSE]
    ELSE IF network.prefix_length > other.prefix_length
         THEN [panic |-> FALSE, value |-> FALSE]
         ELSE network_contains(network, other.network_address, checks)

\* a || b: b is evaluated only when a is false.
OrElse(a, b) == IF a.panic \/ a.value THEN a ELSE b

network_overlaps(network, other, checks) ==
    IF network.network_address.version # other.network_address.version
    THEN [panic |-> FALSE, value |-> FALSE]
    ELSE OrElse(network_contains_network(network, other, checks),
         OrElse(network_contains_network(other, network, checks),
         OrElse(network_contains(network, other.network_address, checks),
                network_contains(other, network.network_address, checks))))

\* last_host: [panic, value], value an address or None.
last_host(network, checks) ==
    IF network.network_address.version = 6 THEN last_host_v6(network, checks)
    ELSE IF network.prefix_length = Bits4
         THEN [panic |-> FALSE, value |-> network.network_address]
         ELSE LET broadcast == broadcast_address(network, checks)
              IN IF network.prefix_length = Bits4 - 1 THEN broadcast
                 ELSE [panic |-> broadcast.panic, value |-> prev(broadcast.value)]

\* subnets(new_prefix_length): the subnet addresses are network + i * step,
\* computed on the address type.
subnets(network, new_prefix_length, checks) ==
    LET version == network.network_address.version
        max_prefix == Bits(version)
    IN IF new_prefix_length <= network.prefix_length \/ new_prefix_length > max_prefix
       THEN Result("err", <<>>)
       ELSE LET subnet_size == ShlOne(new_prefix_length - network.prefix_length, 6, checks)
                step == Shl(1, max_prefix - new_prefix_length, version)
                raw == [i \in 1 .. subnet_size.value |->
                           network.network_address.value + (i - 1) * step]
                overflow == \E i \in 1 .. subnet_size.value :
                               \/ (i - 1) * step >= Modulus(version)
                               \/ raw[i] >= Modulus(version)
            IN IF subnet_size.panic \/ (checks /\ overflow)
               THEN Result("panicked", <<>>)
               ELSE Result("ok",
                           [i \in 1 .. subnet_size.value |->
                               IPNetwork_new(IPAddress(version, raw[i] % Modulus(version)),
                                             new_prefix_length)])

\* IPSet::from_network: the value is the set of the one range of the network.
from_network(network, checks) ==
    LET r == network_range(network, checks)
    IN IF r.panic THEN Result("panicked", {})
       ELSE IF AddrLess(r.value.end, r.value.start) THEN Result("err", {})
       ELSE Result("ok", {r.value})

\* num_addresses: 1u128 << host_bits, u128::MAX for a shift by the full width.
num_addresses(network) ==
    LET host_bits == Bits(network.network_address.version) - network.prefix_length
    IN IF host_bits >= Bits6 THEN MaxValue(6) ELSE Shl(1, host_bits, 6)

\* a ^ b on unsigned integers.
RECURSIVE BitXor(_, _)
BitXor(a, b) ==
    IF a = 0 THEN b
    ELSE IF b = 0 THEN a
    ELSE (IF a % 2 = b % 2 THEN 0 ELSE 1) + 2 * BitXor(a \div 2, b \div 2)

\* The number of bits of x, 0 for x = 0.
RECURSIVE BitLength(_)
BitLength(x) == IF x = 0 THEN 0 ELSE 1 + BitLength(x \div 2)

leading_zeros(x, version) == Bits(version) - BitLength(x)

\* The least and the greatest address of a non-empty list, by Ord.
min_addr(addresses) ==
    CHOOSE a \in SeqToSet(addresses) : \A c \in SeqToSet(addresses) : AddrLeq(a, c)

max_addr(addresses) ==
    CHOOSE a \in SeqToSet(addresses) : \A c \in SeqToSet(addresses) : AddrLeq(c, a)

\* spanning_cidr: the value is <<>> for None and <<network>> for Some.  The
\* IPv4 arm shifts !0u32 by 32 - prefix_len without a guard, the IPv6 arm
\* guards the shift by the full width.
spanning_cidr(addresses, checks) ==
    IF addresses = <<>> THEN Result("ok", <<>>)
    ELSE IF Len(addresses) = 1
    THEN Result("ok", <<IPNetwork_new(addresses[1], Bits(addresses[1].version))>>)
    ELSE IF \E i \in 1 .. Len(addresses) : addresses[i].version # addresses[1].version
    THEN Result("err", <<>>)
    ELSE LET version == addresses[1].version
             min_value == min_addr(addresses).value
             max_value == max_addr(addresses).value
             xor == BitXor(min_value, max_value)
             prefix_len == IF xor = 0 THEN Bits(version)
                           ELSE Bits(version)
                                  - (Bits(version) - leading_zeros(xor, version))
             shift == Bits(version) - prefix_len
         IN IF version = 4
            THEN IF checks /\ shift >= Bits4 THEN Result("panicked", <<>>)
                 ELSE LET network_mask == Shl(MaxValue(4), shift % Bits4, 4)
                          network_addr == BitAnd(min_value, network_mask)
                      IN Result("ok", <<IPNetwork_new(IPAddress(4, network_addr),
                                                      prefix_len)>>)
            ELSE LET network_mask == IF shift >= Bits6 THEN 0
                                     ELSE BitNot(Shl(1, shift, 6) - 1, 6)
                     network_addr == BitAnd(min_value, network_mask)
                 IN Result("ok", <<IPNetwork_new(IPAddress(6, network_addr),
                                                 prefix_len)>>)

\* split_network_exclude: queue is a stack (pop takes the last element).
RECURSIVE split_network_exclude_loop(_, _, _, _)
split_network_exclude_loop(queue, result_list, exclude, checks) ==
    IF queue = <<>> THEN Result("ok", result_list)
    ELSE LET current == queue[Len(queue)]
             rest == SubSeq(queue, 1, Len(queue) - 1)
             ov == network_overlaps(current, exclude, checks)
             inside == network_contains_network(exclude, current, checks)
         IN IF ov.panic THEN Result("panicked", <<>>)
            ELSE IF ~ov.value
            THEN split_network_exclude_loop(rest, Append(result_list, current), exclude, checks)
            ELSE IF inside.panic THEN Result("panicked", <<>>)
            ELSE IF inside.value
            THEN split_network_exclude_loop(rest, result_list, exclude, checks)
            ELSE IF current.prefix_length >= exclude.prefix_length
            THEN split_network_exclude_loop(
                     rest,
                     IF current # exclude THEN Append(result_list, current) ELSE result_list,
                     exclude, checks)
            ELSE LET halves == subnets(current, current.prefix_length + 1, checks)
                 IN IF halves.outcome # "ok" THEN halves
                    ELSE split_network_exclude_loop(
                             IF Len(halves.value) = 2 THEN rest \o halves.value ELSE rest,
                             result_list, exclude, checks)

split_network_exclude(base, exclude, checks) ==
    split_network_exclude_loop(<<base>>, <<>>, exclude, checks)

\* to_cidrs as a call of operations.rs.
to_cidrs_result(range, checks) ==
    LET r == to_cidrs(range, checks)
    IN Result(IF r.outcome = "returned" THEN "ok" ELSE r.outcome, r.cidrs)

\* a, then b, the values concatenated: b runs only when a returned Ok.
Then(a, b) ==
    IF a.outcome # "ok" THEN a
    ELSE IF b.outcome # "ok" THEN b
    ELSE Result("ok", a.value \o b.value)

\* The range network_address ..= last_host().unwrap_or(network_address).
last_host_range(network, checks) ==
    LET last == last_host(network, checks)
        end == IF last.value = None THEN network.network_address ELSE last.value
    IN IF last.panic THEN Result("panicked", <<>>)
       ELSE IF AddrLess(end, network.network_address) THEN Result("err", <<>>)
       ELSE Result("ok", IPRange(network.network_address, end))

\* The last branch of cidr_exclude: neither network contains the other.
cidr_exclude_partial(base, exclude, checks) ==
    LET base_range == last_host_range(base, checks)
        exclude_range == last_host_range(exclude, checks)
    IN IF base_range.outcome # "ok" THEN base_range
       ELSE IF exclude_range.outcome # "ok" THEN exclude_range
       ELSE LET common == intersection(base_range.value, exclude_range.value)
            IN IF common = <<>> THEN Result("ok", <<>>)
               ELSE LET before ==
                            IF AddrLess(base_range.value.start, common[1].start)
                            THEN to_cidrs_result(
                                     IPRange(base_range.value.start, prev(common[1].start)),
                                     checks)
                            ELSE Result("ok", <<>>)
                        after ==
                            IF AddrLess(common[1].end, base_range.value.end)
                            THEN to_cidrs_result(
                                     IPRange(next(common[1].end), base_range.value.end),
                                     checks)
                            ELSE Result("ok", <<>>)
                    IN Then(before, after)

cidr_exclude(base, exclude, checks) ==
    LET ov == network_overlaps(base, exclude, checks)
        covered == network_contains_network(exclude, base, checks)
        inside == network_contains_network(base, exclude, checks)
    IN IF ov.panic THEN Result("panicked", <<>>)
       ELSE IF ~ov.value THEN Result("ok", <<base>>)
       ELSE IF covered.panic THEN Result("panicked", <<>>)
       ELSE IF covered.value THEN Result("ok", <<>>)
       ELSE IF inside.panic THEN Result("panicked", <<>>)
       ELSE IF inside.value THEN split_network_exclude(base, exclude, checks)
       ELSE cidr_exclude_partial(base, exclude, checks)

\* The case cidr_exclude leaves by: "disjoint", "covered", "inside" for its
\* three early returns, "partial" for the code after them, "panicked" when one
\* of the tests panics.
cidr_exclude_case(base, exclude, checks) ==
    LET ov == network_overlaps(base, exclude, checks)
        covered == network_contains_network(exclude, base, checks)
        inside == network_contains_network(base, exclude, checks)
    IN IF ov.panic THEN "panicked"
       ELSE IF ~ov.value THEN "disjoint"
       ELSE IF covered.panic THEN "panicked"
       ELSE IF covered.value THEN "covered"
       ELSE IF inside.panic THEN "panicked"
       ELSE IF inside.value THEN "inside"
       ELSE "partial"

\* The ranges of the networks, in order, up to the first panic.
RECURSIVE cidr_ranges(_, _)
cidr_ranges(cidrs, checks) ==
    IF cidrs = <<>> THEN Result("ok", <<>>)
    ELSE LET r == network_range(Head(cidrs), checks)
         IN IF r.panic THEN Result("panicked", <<>>)
            ELSE Then(Result("ok", <<r.value>>), cidr_ranges(Tail(cidrs), checks))

\* to_cidrs of each range, the lists concatenated.
RECURSIVE ranges_to_cidrs(_, _)
ranges_to_cidrs(merged_ranges, checks) ==
    IF merged_ranges = <<>> THEN Result("ok", <<>>)
    ELSE Then(to_cidrs_result(Head(merged_ranges), checks),
              ranges_to_cidrs(Tail(merged_ranges), checks))

cidr_merge(cidrs, checks) ==
    IF cidrs = <<>> THEN Result("ok", <<>>)
    ELSE LET rs == cidr_ranges(cidrs, checks)
         IN IF rs.outcome # "ok" THEN rs
            ELSE ranges_to_cidrs(merge_ranges(rs.value), checks)

----------------------------------------------------------------------------
(* Inputs of the IPSet and merge_ranges specifications *)

EdgeValues(version) ==
    {v \in 0 .. MaxValue(version) : v < MaxEdge \/ v > MaxValue(version) - MaxEdge}

EdgeAddresses == {a \in AllAddresses : a.value \in EdgeValues(a.version)}

EdgeRanges == {r \in AllRanges : r.start \in EdgeAddresses /\ r.end \in EdgeAddresses}

EdgeNetworks ==
    {n \in AllNetworks :
        /\ n.network_address \in EdgeAddresses
        /\ network_range(n, FALSE).value.end \in EdgeAddresses}

\* Values of the variables a specification does not use.
Idle == [pc |-> "idle"]
NoNetwork == IPNetwork_raw(None, 0)

SetIdle == ranges = {} /\ ref = {} /\ status = "ok" /\ last_op = "new" /\ set_b = {}
MergeIdle == arg = <<>> /\ result = <<>>
CidrsIdle == tc = Idle
NetIdle == in_network = NoNetwork /\ out = <<>>

----------------------------------------------------------------------------
(* The IPSet state machine: one action per public mutating operation.      *)

SetInit ==
    /\ overflow_checks \in BOOLEAN
    /\ SetIdle /\ MergeIdle /\ CidrsIdle /\ NetIdle

DoAdd(range) ==
    /\ ranges' = add_range(ranges, range)
    /\ ref' = ref \cup RangeAddrs(range)
    /\ last_op' = "add"
    /\ UNCHANGED <<overflow_checks, status, set_b, arg, result, tc, in_network, out>>

DoRemove(range) ==
    /\ ranges' = remove_range(ranges, range)
    /\ ref' = ref \ RangeAddrs(range)
    /\ last_op' = "remove"
    /\ UNCHANGED <<overflow_checks, status, set_b, arg, result, tc, in_network, out>>

Panic ==
    /\ status' = "panic"
    /\ UNCHANGED <<overflow_checks, ranges, ref, last_op, set_b, arg, result, tc,
                   in_network, out>>

AddAddress ==
    /\ status = "ok"
    /\ \E addr \in EdgeAddresses : DoAdd(IPRange(addr, addr))

AddNetwork ==
    /\ status = "ok"
    /\ \E network \in EdgeNetworks :
          LET r == network_range(network, overflow_checks)
          IN IF r.panic THEN Panic ELSE DoAdd(r.value)

AddRange ==
    /\ status = "ok"
    /\ \E range \in EdgeRanges : DoAdd(range)

RemoveAddress ==
    /\ status = "ok"
    /\ \E addr \in EdgeAddresses : DoRemove(IPRange(addr, addr))

RemoveNetwork ==
    /\ status = "ok"
    /\ \E network \in EdgeNetworks :
          LET r == network_range(network, overflow_checks)
          IN IF r.panic THEN Panic ELSE DoRemove(r.value)

RemoveRange ==
    /\ status = "ok"
    /\ \E range \in EdgeRanges : DoRemove(range)

SetNext ==
    \/ AddAddress
    \/ AddNetwork
    \/ AddRange
    \/ RemoveAddress
    \/ RemoveNetwork
    \/ RemoveRange

Spec == SetInit /\ [][SetNext]_vars

----------------------------------------------------------------------------
(* to_cidrs on every well-formed range, one action per loop of the call.   *)

CidrsInit ==
    /\ overflow_checks \in BOOLEAN
    /\ \E range \in AllRanges : tc = to_cidrs_start(range)
    /\ SetIdle /\ MergeIdle /\ NetIdle

CidrsFrame ==
    UNCHANGED <<overflow_checks, ranges, ref, status, last_op, set_b, arg, result,
                in_network, out>>

Main == tc.pc = "main" /\ tc' = MainStep(tc, overflow_checks) /\ CidrsFrame

Maxblock == tc.pc = "maxblock" /\ tc' = MaxblockStep(tc, overflow_checks) /\ CidrsFrame

Pow2 == tc.pc = "pow2" /\ tc' = Pow2Step(tc) /\ CidrsFrame

Align == tc.pc = "align" /\ tc' = AlignStep(tc, overflow_checks) /\ CidrsFrame

Pow2Small == tc.pc = "pow2_small" /\ tc' = Pow2SmallStep(tc) /\ CidrsFrame

Emit == tc.pc = "emit" /\ tc' = EmitStep(tc, overflow_checks) /\ CidrsFrame

EmitSmall == tc.pc = "emit_small" /\ tc' = EmitSmallStep(tc, overflow_checks) /\ CidrsFrame

CidrsNext ==
    \/ Main
    \/ Maxblock
    \/ Pow2
    \/ Align
    \/ Pow2Small
    \/ Emit
    \/ EmitSmall

SpecCidrs == CidrsInit /\ [][CidrsNext]_vars

\* The call is one sequential computation: a step that can be taken is taken.
SpecCidrsFair == SpecCidrs /\ WF_vars(CidrsNext)

----------------------------------------------------------------------------
(* Functions of one network: the network is the input, out the result.     *)

\* cidrs_to_ranges on the one-element list [network], then to_cidrs on the
\* range it gives.
round_trip(network, checks) ==
    LET r == network_range(network, checks)
    IN IF r.panic THEN [outcome |-> "panicked", cidrs |-> <<>>]
       ELSE to_cidrs(r.value, checks)

NetInit ==
    /\ overflow_checks \in BOOLEAN
    /\ in_network \in AllNetworks
    /\ out = <<>>
    /\ SetIdle /\ MergeIdle /\ CidrsIdle

RoundTrip ==
    /\ out = <<>>
    /\ out' = <<round_trip(in_network, overflow_checks)>>
    /\ UNCHANGED <<overflow_checks, ranges, ref, status, last_op, set_b, arg, result,
                   tc, in_network>>

NetNext ==
    \/ RoundTrip

SpecNet == NetInit /\ [][NetNext]_vars

----------------------------------------------------------------------------
(* merge_ranges on every list of at most MaxLen ranges.  result is <<>>     *)
(* before the call, <<merge_ranges(arg)>> after it, and after a second call *)
(* on the first result <<merge_ranges(arg), merge_ranges(merge_ranges(arg))>>. *)

MergeInputs == UNION {[1 .. n -> EdgeRanges] : n \in 0 .. MaxLen}

MergeInit ==
    /\ overflow_checks = FALSE
    /\ arg \in MergeInputs
    /\ result = <<>>
    /\ SetIdle /\ CidrsIdle /\ NetIdle

MergeFrame ==
    UNCHANGED <<overflow_checks, ranges, ref, status, last_op, set_b, arg, tc,
                in_network, out>>

Merge ==
    /\ result = <<>>
    /\ result' = <<merge_ranges(arg)>>
    /\ MergeFrame

Remerge ==
    /\ Len(result) = 1
    /\ result' = Append(result, merge_ranges(result[1]))
    /\ MergeFrame

MergeNext ==
    \/ Merge
    \/ Remerge

SpecMerge == MergeInit /\ [][MergeNext]_vars

----------------------------------------------------------------------------
(* Set algebra on two IPSets, each built from the empty set by at most      *)
(* MaxBuild add_range/remove_range calls.                                   *)

BuildStep(sets) ==
    sets \cup {add_range(S, r) : S \in sets, r \in EdgeRanges}
         \cup {remove_range(S, r) : S \in sets, r \in EdgeRanges}

RECURSIVE BuiltIn(_)
BuiltIn(k) == IF k = 0 THEN {{}} ELSE BuildStep(BuiltIn(k - 1))

BuiltSets == BuiltIn(MaxBuild)

\* A.difference(B).union(A.intersection(B))
difference_union_intersection(A, B) == union(difference(A, B), set_intersection(A, B))

AlgebraInit ==
    /\ overflow_checks \in BOOLEAN
    /\ ranges \in BuiltSets
    /\ set_b \in BuiltSets
    /\ ref = {} /\ status = "ok" /\ last_op = "new"
    /\ out = <<>>
    /\ in_network = NoNetwork
    /\ MergeIdle /\ CidrsIdle

Algebra ==
    /\ out = <<>>
    /\ out' = <<[union |-> union(ranges, set_b),
                 intersection |-> set_intersection(ranges, set_b),
                 difference |-> difference(ranges, set_b),
                 difference_union_intersection |->
                     difference_union_intersection(ranges, set_b),
                 size_a |-> size(ranges, overflow_checks),
                 size_b |-> size(set_b, overflow_checks),
                 size_union |-> size(union(ranges, set_b), overflow_checks),
                 size_intersection |->
                     size(set_intersection(ranges, set_b), overflow_checks)]>>
    /\ UNCHANGED <<overflow_checks, ranges, ref, status, last_op, set_b, arg, result,
                   tc, in_network>>

\* The relations and the symmetric difference of the same two sets, after the
\* operations above.
Relations ==
    /\ Len(out) = 1
    /\ out' = Append(out,
                     [is_subset |-> is_subset(ranges, set_b),
                      is_superset |-> is_superset(ranges, set_b),
                      other_is_subset |-> is_subset(set_b, ranges),
                      is_subset_of_union |-> is_subset(ranges, union(ranges, set_b)),
                      symmetric_difference |-> symmetric_difference(ranges, set_b),
                      other_symmetric_difference |->
                          symmetric_difference(set_b, ranges)])
    /\ UNCHANGED <<overflow_checks, ranges, ref, status, last_op, set_b, arg, result,
                   tc, in_network>>

AlgebraNext ==
    \/ Algebra
    \/ Relations

SpecAlgebra == AlgebraInit /\ [][AlgebraNext]_vars

----------------------------------------------------------------------------
(* cidr_exclude and cidr_merge on every list of at most MaxNets networks    *)
(* built with IPNetwork::new.  out holds the calls made so far, each as     *)
(* [op, outcome, value].                                                    *)

NetLists == UNION {[1 .. n -> AllNetworks] : n \in 0 .. MaxNets}

Call(op, r) == [op |-> op, outcome |-> r.outcome, value |-> r.value]

OpsInit ==
    /\ overflow_checks \in BOOLEAN
    /\ arg \in NetLists
    /\ out = <<>>
    /\ result = <<>>
    /\ in_network = NoNetwork
    /\ SetIdle /\ CidrsIdle

OpsFrame ==
    UNCHANGED <<overflow_checks, ranges, ref, status, last_op, set_b, arg, result,
                tc, in_network>>

\* cidr_exclude(base, exclude) on the two networks of the list.
CidrExclude ==
    /\ Len(arg) = 2
    /\ out = <<>>
    /\ out' = <<Call("cidr_exclude", cidr_exclude(arg[1], arg[2], overflow_checks))>>
    /\ OpsFrame

\* cidr_merge on the list cidr_exclude returned, followed by exclude.
ExcludeThenMerge ==
    /\ Len(out) = 1
    /\ out[1].op = "cidr_exclude"
    /\ out[1].outcome = "ok"
    /\ out' = Append(out, Call("cidr_merge",
                               cidr_merge(Append(out[1].value, arg[2]), overflow_checks)))
    /\ OpsFrame

CidrMerge ==
    /\ out = <<>>
    /\ out' = <<Call("cidr_merge", cidr_merge(arg, overflow_checks))>>
    /\ OpsFrame

\* cidr_merge on the list cidr_merge returned.
CidrRemerge ==
    /\ Len(out) = 1
    /\ out[1].op = "cidr_merge"
    /\ out[1].outcome = "ok"
    /\ out' = Append(out, Call("cidr_merge", cidr_merge(out[1].value, overflow_checks)))
    /\ OpsFrame

OpsNext ==
    \/ CidrExclude
    \/ ExcludeThenMerge
    \/ CidrMerge
    \/ CidrRemerge

SpecOps == OpsInit /\ [][OpsNext]_vars

----------------------------------------------------------------------------
(* spanning_cidr on every list of at most MaxLen addresses.                 *)

AddressLists == UNION {[1 .. n -> AllAddresses] : n \in 0 .. MaxLen}

SpanInit ==
    /\ overflow_checks \in BOOLEAN
    /\ arg \in AddressLists
    /\ out = <<>>
    /\ result = <<>>
    /\ in_network = NoNetwork
    /\ SetIdle /\ CidrsIdle

SpanningCidr ==
    /\ out = <<>>
    /\ out' = <<Call("spanning_cidr", spanning_cidr(arg, overflow_checks))>>
    /\ OpsFrame

SpanNext ==
    \/ SpanningCidr

SpecSpan == SpanInit /\ [][SpanNext]_vars

----------------------------------------------------------------------------
(* IPRange::size and IPSet::size on every set of one well-formed range and  *)
(* on the sets built by at most MaxBuild add_range/remove_range calls.      *)

SizeSets == {{r} : r \in AllRanges} \cup BuiltSets

SizeInit ==
    /\ overflow_checks \in BOOLEAN
    /\ ranges \in SizeSets
    /\ ref = {} /\ status = "ok" /\ last_op = "new" /\ set_b = {}
    /\ out = <<>>
    /\ in_network = NoNetwork
    /\ MergeIdle /\ CidrsIdle

Size ==
    /\ out = <<>>
    /\ out' = <<[range_sizes |-> [r \in ranges |-> range_size(r, overflow_checks)],
                 size |-> size(ranges, overflow_checks)]>>
    /\ UNCHANGED <<overflow_checks, ranges, ref, status, last_op, set_b, arg, result,
                   tc, in_network>>

SizeNext ==
    \/ Size

SpecSize == SizeInit /\ [][SizeNext]_vars

----------------------------------------------------------------------------
(* IPNetwork::new on every address and every prefix length up to MaxOver    *)
(* beyond the address width, then again on the fields of the network it     *)
(* returned.  in_network holds the two arguments.                           *)

NewInit ==
    /\ overflow_checks \in BOOLEAN
    /\ \E addr \in AllAddresses :
          \E prefix_length \in 0 .. Bits(addr.version) + MaxOver :
              in_network = IPNetwork_raw(addr, prefix_length)
    /\ out = <<>>
    /\ SetIdle /\ MergeIdle /\ CidrsIdle

New ==
    /\ out = <<>>
    /\ out' = <<IPNetwork_new_result(in_network.network_address,
                                     in_network.prefix_length)>>
    /\ UNCHANGED <<overflow_checks, ranges, ref, status, last_op, set_b, arg, result,
                   tc, in_network>>

NewAgain ==
    /\ Len(out) = 1
    /\ out[1].outcome = "ok"
    /\ out' = Append(out, IPNetwork_new_result(out[1].value[1].network_address,
                                               out[1].value[1].prefix_length))
    /\ UNCHANGED <<overflow_checks, ranges, ref, status, last_op, set_b, arg, result,
                   tc, in_network>>

NewNext ==
    \/ New
    \/ NewAgain

SpecNew == NewInit /\ [][NewNext]_vars

----------------------------------------------------------------------------
(* IPAddress::next and IPAddress::prev on every address, then the other of  *)
(* the two on the address returned.  arg holds the address, out the values  *)
(* returned so far as [op, value], value an address or None.                *)

AddrInit ==
    /\ overflow_checks \in BOOLEAN
    /\ \E a \in AllAddresses : arg = <<a>>
    /\ out = <<>>
    /\ result = <<>>
    /\ in_network = NoNetwork
    /\ SetIdle /\ CidrsIdle

NextCall ==
    /\ out = <<>>
    /\ out' = <<[op |-> "next", value |-> next(arg[1])]>>
    /\ OpsFrame

PrevCall ==
    /\ out = <<>>
    /\ out' = <<[op |-> "prev", value |-> prev(arg[1])]>>
    /\ OpsFrame

NextThenPrev ==
    /\ Len(out) = 1
    /\ out[1].op = "next"
    /\ out[1].value # None
    /\ out' = Append(out, [op |-> "prev", value |-> prev(out[1].value)])
    /\ OpsFrame

PrevThenNext ==
    /\ Len(out) = 1
    /\ out[1].op = "prev"
    /\ out[1].value # None
    /\ out' = Append(out, [op |-> "next", value |-> next(out[1].value)])
    /\ OpsFrame

AddrNext ==
    \/ NextCall
    \/ PrevCall
    \/ NextThenPrev
    \/ PrevThenNext

SpecAddr == AddrInit /\ [][AddrNext]_vars

----------------------------------------------------------------------------
(* IPSet::from_network on every network built with IPNetwork::new, with the *)
(* size() of the set and num_addresses() of the network.                    *)

FromInit ==
    /\ overflow_checks \in BOOLEAN
    /\ in_network \in AllNetworks
    /\ out = <<>>
    /\ SetIdle /\ MergeIdle /\ CidrsIdle

FromNetwork ==
    /\ out = <<>>
    /\ LET set == from_network(in_network, overflow_checks)
       IN out' = <<[set |-> set,
                    size |-> IF set.outcome = "ok" THEN size(set.value, overflow_checks)
                             ELSE [panic |-> FALSE, value |-> 0],
                    num_addresses |-> num_addresses(in_network)]>>
    /\ UNCHANGED <<overflow_checks, ranges, ref, status, last_op, set_b, arg, result,
                   tc, in_network>>

FromNext ==
    \/ FromNetwork

SpecFrom == FromInit /\ [][FromNext]_vars

----------------------------------------------------------------------------
(* IPNetwork::subnets on every network built with IPNetwork::new and every  *)
(* new prefix length up to MaxOver beyond the address width.  arg holds the *)
(* new prefix length.                                                       *)

SubnetsInit ==
    /\ overflow_checks \in BOOLEAN
    /\ in_network \in AllNetworks
    /\ \E new_prefix_length \in 0 .. Bits(in_network.network_address.version) + MaxOver :
          arg = <<new_prefix_length>>
    /\ out = <<>>
    /\ result = <<>>
    /\ SetIdle /\ CidrsIdle

Subnets ==
    /\ out = <<>>
    /\ out' = <<Call("subnets", subnets(in_network, arg[1], overflow_checks))>>
    /\ UNCHANGED <<overflow_checks, ranges, ref, status, last_op, set_b, arg, result,
                   tc, in_network>>

SubnetsNext ==
    \/ Subnets

SpecSubnets == SubnetsInit /\ [][SubnetsNext]_vars

----------------------------------------------------------------------------
(* One call on an IPSet built by at most MaxBuild add_range/remove_range    *)
(* calls: remove_range or contains_range with any well-formed range, or     *)
(* contains_network with any network built with IPNetwork::new.  arg holds  *)
(* the range or the network.                                                *)

IsRange(x) == "start" \in DOMAIN x

QueryInit ==
    /\ overflow_checks \in BOOLEAN
    /\ ranges \in BuiltSets
    /\ \E x \in AllRanges \cup AllNetworks : arg = <<x>>
    /\ ref = {} /\ status = "ok" /\ last_op = "new" /\ set_b = {}
    /\ out = <<>>
    /\ result = <<>>
    /\ in_network = NoNetwork
    /\ CidrsIdle

\* remove_range on a copy of the set: the value is the set afterwards.
RemoveRangeCall ==
    /\ out = <<>>
    /\ IsRange(arg[1])
    /\ out' = <<Call("remove_range", Result("ok", remove_range(ranges, arg[1])))>>
    /\ OpsFrame

ContainsRange ==
    /\ out = <<>>
    /\ IsRange(arg[1])
    /\ out' = <<Call("contains_range", Result("ok", contains_range(ranges, arg[1])))>>
    /\ OpsFrame

ContainsNetwork ==
    /\ out = <<>>
    /\ ~IsRange(arg[1])
    /\ LET r == contains_network(ranges, arg[1], overflow_checks)
       IN out' = <<Call("contains_network",
                        Result(IF r.panic THEN "panicked" ELSE "ok", r.value))>>
    /\ OpsFrame

QueryNext ==
    \/ RemoveRangeCall
    \/ ContainsRange
    \/ ContainsNetwork

SpecQuery == QueryInit /\ [][QueryNext]_vars

----------------------------------------------------------------------------
(* Two IPSets, each built by at most MaxBuild add_range/remove_range calls, *)
(* compared with ==, by their ranges() lists, and each after compact().     *)

CanonInit ==
    /\ overflow_checks \in BOOLEAN
    /\ ranges \in BuiltSets
    /\ set_b \in BuiltSets
    /\ ref = {} /\ status = "ok" /\ last_op = "new"
    /\ out = <<>>
    /\ in_network = NoNetwork
    /\ MergeIdle /\ CidrsIdle

Compare ==
    /\ out = <<>>
    /\ out' = <<[eq |-> ranges = set_b,
                 ranges_eq |-> iter(ranges) = iter(set_b),
                 compact |-> compact(ranges),
                 other_compact |-> compact(set_b)]>>
    /\ UNCHANGED <<overflow_checks, ranges, ref, status, last_op, set_b, arg, result,
                   tc, in_network>>

CanonNext ==
    \/ Compare

SpecCanon == CanonInit /\ [][CanonNext]_vars

----------------------------------------------------------------------------
(* IPNetwork::contains called on every network and every address. *)

ContainsInit ==
    /\ overflow_checks \in BOOLEAN
    /\ in_network \in AllNetworks
    /\ \E addr \in AllAddresses : arg = <<addr>>
    /\ out = <<>>
    /\ result = <<>>
    /\ SetIdle /\ CidrsIdle

Contains ==
    /\ out = <<>>
    /\ LET r == network_contains(in_network, arg[1], overflow_checks)
       IN out' = <<Call("contains",
                        Result(IF r.panic THEN "panicked" ELSE "ok", r.value))>>
    /\ UNCHANGED <<overflow_checks, ranges, ref, status, last_op, set_b, arg, result,
                   tc, in_network>>

ContainsNext ==
    \/ Contains

SpecContains == ContainsInit /\ [][ContainsNext]_vars

----------------------------------------------------------------------------
(* What the claims speak of *)

\* The addresses of a network: network_address .. network_address + 2^host_bits - 1.
NetAddrs(network) ==
    LET version == network.network_address.version
        first == network.network_address.value
        block == 2 ^ (Bits(version) - network.prefix_length)
    IN {a \in Addresses(version) : first <= a.value /\ a.value < first + block}

\* A valid CIDR block: its address is a multiple of its size.
ValidBlock(network) ==
    LET version == network.network_address.version
    IN /\ network.prefix_length \in 0 .. Bits(version)
       /\ network.network_address.value % (2 ^ (Bits(version) - network.prefix_length)) = 0

CoveredBy(cidrs) == UNION {NetAddrs(cidrs[i]) : i \in 1 .. Len(cidrs)}

NoOverlap(cidrs) ==
    \A i, j \in 1 .. Len(cidrs) : i # j => NetAddrs(cidrs[i]) \cap NetAddrs(cidrs[j]) = {}

Ascending(cidrs) ==
    \A i \in 1 .. Len(cidrs) - 1 :
        AddrLess(cidrs[i].network_address, cidrs[i + 1].network_address)

\* The least number of valid CIDR blocks that cover exactly lo .. hi: the first
\* block starts at lo, is aligned at lo and ends at or before hi.
RECURSIVE MinBlocks(_, _)
MinBlocks(lo, hi) ==
    IF lo > hi THEN 0
    ELSE LET sizes == {2 ^ k : k \in {j \in 0 .. Bits6 : lo % (2 ^ j) = 0 /\ lo + 2 ^ j - 1 <= hi}}
             counts == {1 + MinBlocks(lo + b, hi) : b \in sizes}
         IN CHOOSE c \in counts : \A d \in counts : c <= d

Members(S) == {a \in AllAddresses : contains_address(S, a)}

SeqAddrs(s) == UNION {RangeAddrs(s[i]) : i \in 1 .. Len(s)}

Disjoint(S) == \A r \in S : \A s \in S : r # s => RangeAddrs(r) \cap RangeAddrs(s) = {}

\* No range ends right before another of its version starts.
Coalesced(S) ==
    \A r \in S : \A s \in S :
        r.end.version = s.start.version => r.end.value + 1 # s.start.value

TcRange == IPRange(IPAddress(tc.version, tc.start), IPAddress(tc.version, tc.end))

Returned == tc.pc = "returned"

\* C1: after any sequence of the six mutating operations the stored ranges
\* are pairwise disjoint and no two of them are adjacent.
C1_DisjointCoalesced == Disjoint(ranges) /\ Coalesced(ranges)

\* C2: contains_address answers membership in the reference set, the union of
\* the added ranges less the removed ones in the order of the calls.
C2_RefinesAddressSet == \A a \in AllAddresses : contains_address(ranges, a) <=> a \in ref

\* A removal has cut a stored range in two.
C2_Witness ==
    /\ last_op = "remove"
    /\ \E r \in ranges : \E s \in ranges :
          r.start.version = s.start.version /\ r.end.value + 1 < s.start.value
    /\ ref # {}

\* C3: when to_cidrs returns, the networks cover exactly [start, end], do not
\* overlap and are valid CIDR blocks.
C3_ExactCover ==
    Returned =>
        /\ CoveredBy(tc.cidrs) = RangeAddrs(TcRange)
        /\ NoOverlap(tc.cidrs)
        /\ \A i \in 1 .. Len(tc.cidrs) : ValidBlock(tc.cidrs[i])

\* C4: when to_cidrs returns, the networks are in strictly ascending order and
\* no shorter list of valid CIDR blocks covers exactly [start, end].
C4_AscendingMinimal ==
    Returned =>
        /\ Ascending(tc.cidrs)
        /\ CoveredBy(tc.cidrs) = RangeAddrs(TcRange)
        /\ Len(tc.cidrs) = MinBlocks(tc.start, tc.end)

\* C5: a network converted to its range and back by to_cidrs is the list [N].
C5_RoundTrip ==
    out # <<>> => out[1].outcome = "returned" /\ out[1].cidrs = <<in_network>>

\* C6: every to_cidrs call comes to an end.
C6_Terminates == <>(tc.pc \in {"returned", "panicked"})

\* The list is sorted by (start, end), IPv4 before IPv6.
SortedSeq(s) == \A i \in 1 .. Len(s) - 1 : RangeLess(s[i], s[i + 1])

\* C7: merge_ranges(X) is sorted, pairwise disjoint, without adjacent ranges of
\* one version, and covers the addresses of X; the empty list gives the empty
\* list.
C7_MergeSortedDisjointCoalesced ==
    result # <<>> =>
        /\ SortedSeq(result[1])
        /\ \A i, j \in 1 .. Len(result[1]) :
              i # j => RangeAddrs(result[1][i]) \cap RangeAddrs(result[1][j]) = {}
        /\ Coalesced(SeqToSet(result[1]))
        /\ SeqAddrs(result[1]) = SeqAddrs(arg)
        /\ (arg = <<>> => result[1] = <<>>)

\* Three ranges of one version in the argument were merged into fewer.
C7_Witness ==
    /\ result # <<>>
    /\ Len(arg) = 3
    /\ \A i \in 1 .. 3 : arg[i].start.version = arg[1].start.version
    /\ arg[2].start.value < arg[1].start.value
    /\ Len(result[1]) = 2

\* C8: merging a merged list again gives the same list.
C8_MergeIdempotent == Len(result) = 2 => result[2] = result[1]

\* The second merge ran on a list the first merge had shortened.
C8_Witness == Len(result) = 2 /\ Len(result[1]) = 2 /\ Len(arg) = 3

\* C9: size(A union B) + size(A intersection B) = size(A) + size(B), no size
\* computation panicking.
C9_SizeInclusionExclusion ==
    out # <<>> =>
        /\ ~out[1].size_a.panic /\ ~out[1].size_b.panic
        /\ ~out[1].size_union.panic /\ ~out[1].size_intersection.panic
        /\ out[1].size_union.value + out[1].size_intersection.value
             = out[1].size_a.value + out[1].size_b.value

\* C10: A.difference(B).union(A.intersection(B)) has the addresses of A.
C10_DifferenceUnionIntersection ==
    out # <<>> => Members(out[1].difference_union_intersection) = Members(ranges)

\* B cuts A: part of A is in B and part is not.
C10_Witness ==
    /\ out # <<>>
    /\ out[1].intersection # {}
    /\ out[1].difference # {}
    /\ Cardinality(ranges) >= 2

\* C11: A.is_subset(A.union(B)) is true; A.is_subset(B) is true exactly when
\* every address of A is an address of B; A.is_superset(B) is B.is_subset(A).
C11_SubsetSuperset ==
    Len(out) = 2 =>
        /\ out[2].is_subset_of_union
        /\ out[2].is_subset <=> (Members(ranges) \subseteq Members(set_b))
        /\ out[2].is_superset <=> out[2].other_is_subset
        /\ out[2].is_superset <=> (Members(set_b) \subseteq Members(ranges))

\* A is a proper subset of a B of several ranges, and not a superset of it.
C11_Witness ==
    /\ Len(out) = 2
    /\ out[2].is_subset /\ ~out[2].is_superset
    /\ ranges # {}
    /\ Cardinality(set_b) >= 2

\* C12: A.symmetric_difference(B) has exactly the addresses that are in one of
\* A, B and not in both, and the addresses of B.symmetric_difference(A).
C12_SymmetricDifference ==
    Len(out) = 2 =>
        /\ Members(out[2].symmetric_difference)
             = (Members(ranges) \cup Members(set_b)) \ (Members(ranges) \cap Members(set_b))
        /\ Members(out[2].symmetric_difference)
             = Members(out[2].other_symmetric_difference)

\* A and B share addresses and each has addresses the other lacks.
C12_Witness ==
    /\ Len(out) = 2
    /\ out[1].intersection # {}
    /\ Members(ranges) \ Members(set_b) # {}
    /\ Members(set_b) \ Members(ranges) # {}
    /\ Cardinality(out[2].symmetric_difference) >= 2

\* The first call made was op.
Called(op) == Len(out) >= 1 /\ out[1].op = op

\* C13: for exclude contained in base, cidr_exclude(base, exclude) returns and
\* cidr_merge of its list followed by exclude returns exactly [base].
C13_ExcludeMergeInverse ==
    (/\ Called("cidr_exclude")
     /\ arg[1].network_address.version = arg[2].network_address.version
     /\ NetAddrs(arg[2]) \subseteq NetAddrs(arg[1]))
    => /\ out[1].outcome = "ok"
       /\ Len(out) = 2 => out[2].outcome = "ok" /\ out[2].value = <<arg[1]>>

\* C14: cidr_exclude(base, exclude) returns pairwise disjoint networks whose
\* union is the addresses of base that are not in exclude; [base] when the two
\* are disjoint and the empty list when exclude contains base.
C14_ExcludeExactRemainder ==
    Called("cidr_exclude") =>
        /\ out[1].outcome = "ok"
        /\ NoOverlap(out[1].value)
        /\ CoveredBy(out[1].value) = NetAddrs(arg[1]) \ NetAddrs(arg[2])
        /\ NetAddrs(arg[1]) \cap NetAddrs(arg[2]) = {} => out[1].value = <<arg[1]>>
        /\ NetAddrs(arg[1]) \subseteq NetAddrs(arg[2]) => out[1].value = <<>>

\* C15: cidr_merge returns pairwise disjoint networks whose union is the union
\* of the input networks, two halves of a network merged into it; the empty
\* list gives the empty list, and cidr_merge of the result is the result.
C15_MergeExactUnion ==
    Called("cidr_merge") =>
        /\ out[1].outcome = "ok"
        /\ NoOverlap(out[1].value)
        /\ CoveredBy(out[1].value) = CoveredBy(arg)
        /\ arg = <<>> => out[1].value = <<>>
        /\ (/\ Len(arg) = 2
            /\ arg[1] # arg[2]
            /\ \E n \in AllNetworks : NetAddrs(n) = CoveredBy(arg))
           => Len(out[1].value) = 1
        /\ Len(out) = 2 => out[2].outcome = "ok" /\ out[2].value = out[1].value

\* The number of leading bits that the values a and b share, of width bits.
RECURSIVE SharedLeadingBits(_, _, _)
SharedLeadingBits(a, b, width) ==
    IF width = 0 THEN 0
    ELSE IF a \div (2 ^ (width - 1)) # b \div (2 ^ (width - 1)) THEN 0
    ELSE 1 + SharedLeadingBits(a % (2 ^ (width - 1)), b % (2 ^ (width - 1)), width - 1)

MixedVersions(addresses) ==
    \E i, j \in 1 .. Len(addresses) : addresses[i].version # addresses[j].version

\* C16: spanning_cidr of a non-empty list of one version returns a network
\* that contains every address, no network with a longer prefix contains them
\* all, and its prefix length is the number of leading bits the least and the
\* greatest address share; one address gives /W, the empty list gives None,
\* mixed versions give an error.
C16_SpanningCidr ==
    Called("spanning_cidr") =>
        /\ arg = <<>> => out[1].outcome = "ok" /\ out[1].value = <<>>
        /\ (Len(arg) >= 2 /\ MixedVersions(arg)) => out[1].outcome = "err"
        /\ Len(arg) = 1 =>
              /\ out[1].outcome = "ok"
              /\ out[1].value = <<IPNetwork_raw(arg[1], Bits(arg[1].version))>>
        /\ (arg # <<>> /\ ~MixedVersions(arg)) =>
              /\ out[1].outcome = "ok"
              /\ Len(out[1].value) = 1
              /\ ValidBlock(out[1].value[1])
              /\ SeqToSet(arg) \subseteq NetAddrs(out[1].value[1])
              /\ \A m \in Networks(arg[1].version) :
                    m.prefix_length > out[1].value[1].prefix_length
                        => ~(SeqToSet(arg) \subseteq NetAddrs(m))
              /\ out[1].value[1].prefix_length
                   = SharedLeadingBits(min_addr(arg).value, max_addr(arg).value,
                                       Bits(arg[1].version))

\* The range that covers the whole address space of a version.
WholeSpace(version) == IPRange(IPAddress(version, 0), IPAddress(version, MaxValue(version)))

\* C17: size() of the IPRange and of the IPSet covering the whole IPv6 address
\* space returns without a panic, and the value is not wrapped to 0.
C17_WholeIPv6Size ==
    (out # <<>> /\ ranges = {WholeSpace(6)}) =>
        /\ ~out[1].range_sizes[WholeSpace(6)].panic
        /\ out[1].range_sizes[WholeSpace(6)].value # 0
        /\ ~out[1].size.panic
        /\ out[1].size.value # 0

\* The number of addresses of the ranges of S.
RECURSIVE AddressCount(_)
AddressCount(S) ==
    IF S = {} THEN 0
    ELSE LET r == CHOOSE x \in S : TRUE
         IN (r.end.value - r.start.value + 1) + AddressCount(S \ {r})

\* C18: IPRange::size() of every IPv4 range is end - start + 1, not wrapped,
\* the whole IPv4 space included; IPSet::size() of IPv4 ranges is their sum.
C18_IPv4Size ==
    (out # <<>> /\ \A r \in ranges : r.start.version = 4) =>
        /\ \A r \in ranges :
              /\ ~out[1].range_sizes[r].panic
              /\ out[1].range_sizes[r].value = r.end.value - r.start.value + 1
        /\ ~out[1].size.panic
        /\ out[1].size.value = AddressCount(ranges)

\* C19: no IPSet operation aborts or returns an error, networks of prefix
\* length 0 and ranges at either end of the address space included.
C19_SetOperationsTotal == status = "ok"

\* C20: IPNetwork::new(addr, p) is an error for p beyond the address width;
\* else the network has prefix length p and the address addr with the bits
\* after the first p cleared, and new on its fields returns it again.
C20_NewNormalizes ==
    Len(out) >= 1 =>
        LET addr == in_network.network_address
            prefix_length == in_network.prefix_length
            width == Bits(addr.version)
        IN IF prefix_length > width THEN out[1].outcome = "err"
           ELSE /\ out[1].outcome = "ok"
                /\ out[1].value[1].prefix_length = prefix_length
                /\ out[1].value[1].network_address
                     = IPAddress(addr.version,
                                 addr.value - (addr.value % (2 ^ (width - prefix_length))))
                /\ ValidBlock(out[1].value[1])
                /\ Len(out) = 2 => out[2] = out[1]

\* new cleared host bits of an IPv6 address, and was called again on the result.
C20_Witness ==
    /\ Len(out) = 2
    /\ in_network.network_address.version = 6
    /\ in_network.prefix_length \in 1 .. Bits6 - 1
    /\ out[1].value[1].network_address # in_network.network_address

\* C21: next() is None at the highest address and a + 1 otherwise, prev() is
\* None at address 0 and a - 1 otherwise, both of the version of a, and
\* a.next().prev() is a.
C21_NextPrev ==
    Len(out) >= 1 =>
        LET a == arg[1]
        IN /\ out[1].op = "next" =>
                 /\ out[1].value = IF a.value = MaxValue(a.version) THEN None
                                   ELSE [version |-> a.version, value |-> a.value + 1]
                 /\ Len(out) = 2 => out[2].value = a
           /\ out[1].op = "prev" =>
                 /\ out[1].value = IF a.value = 0 THEN None
                                   ELSE [version |-> a.version, value |-> a.value - 1]
                 /\ Len(out) = 2 => out[2].value = a

\* next() returned the highest address of IPv4 and prev() was called on it.
C21_Witness ==
    /\ Len(out) = 2
    /\ out[1].op = "next"
    /\ out[1].value = [version |-> 4, value |-> MaxValue(4)]

\* The number of addresses of a network: 2^(W - p).
BlockSize(network) ==
    2 ^ (Bits(network.network_address.version) - network.prefix_length)

\* C22: for a network N of prefix length p with 2^(W-p) representable,
\* from_network(N) holds the single range
\* [network_address, network_address + 2^(W-p) - 1], and its size() and
\* N.num_addresses() are 2^(W-p).
C22_FromNetwork ==
    (out # <<>> /\ BlockSize(in_network) <= MaxValue(6)) =>
        /\ out[1].set.outcome = "ok"
        /\ out[1].set.value
             = {[start |-> in_network.network_address,
                 end |-> [version |-> in_network.network_address.version,
                          value |-> in_network.network_address.value
                                      + BlockSize(in_network) - 1]]}
        /\ ~out[1].size.panic
        /\ out[1].size.value = BlockSize(in_network)
        /\ out[1].num_addresses = BlockSize(in_network)

\* C23: N.subnets(n) is an error for n <= p or n > W; else it returns exactly
\* 2^(n-p) networks of prefix length n, in ascending address order, pairwise
\* disjoint, whose union is exactly N.
C23_Subnets ==
    Called("subnets") =>
        LET n == arg[1]
            p == in_network.prefix_length
            width == Bits(in_network.network_address.version)
        IN IF n <= p \/ n > width THEN out[1].outcome = "err"
           ELSE /\ out[1].outcome = "ok"
                /\ Len(out[1].value) = 2 ^ (n - p)
                /\ \A i \in 1 .. Len(out[1].value) :
                      out[1].value[i].prefix_length = n /\ ValidBlock(out[1].value[i])
                /\ Ascending(out[1].value)
                /\ NoOverlap(out[1].value)
                /\ CoveredBy(out[1].value) = NetAddrs(in_network)

\* C24: when base strictly contains exclude, cidr_exclude(base, exclude)
\* returns exclude.prefix - base.prefix networks, one of each prefix length
\* base.prefix + 1 .. exclude.prefix, that cover base less exclude; the
\* bisection comes to an end.
C24_ExcludeOnePerPrefix ==
    (/\ Called("cidr_exclude")
     /\ arg[1].network_address.version = arg[2].network_address.version
     /\ arg[1].prefix_length < arg[2].prefix_length
     /\ NetAddrs(arg[2]) \subseteq NetAddrs(arg[1]))
    => /\ out[1].outcome = "ok"
       /\ Len(out[1].value) = arg[2].prefix_length - arg[1].prefix_length
       /\ {out[1].value[i].prefix_length : i \in 1 .. Len(out[1].value)}
            = arg[1].prefix_length + 1 .. arg[2].prefix_length
       /\ CoveredBy(out[1].value) = NetAddrs(arg[1]) \ NetAddrs(arg[2])

\* C25: merge_ranges never joins ranges through wraparound or across
\* versions: every range it returns is well-formed, of one version, and holds
\* only addresses of the argument, so a range ending at the highest address
\* and a range starting at address 0 stay apart unless the ranges between
\* them join them.
C25_MergeNoWraparound ==
    result # <<>> =>
        \A i \in 1 .. Len(result[1]) :
            /\ result[1][i].start.version = result[1][i].end.version
            /\ result[1][i].start.value <= result[1][i].end.value
            /\ RangeAddrs(result[1][i]) \subseteq SeqAddrs(arg)

\* The argument has a range from address 0 and a range up to the highest
\* address of one version that do not meet, and a range of the other version.
C25_Witness ==
    /\ result # <<>>
    /\ \E i, j, k \in 1 .. Len(arg) :
          /\ arg[i].start.version = 4 /\ arg[j].start.version = 4
          /\ arg[k].start.version = 6
          /\ arg[i].start.value = 0
          /\ arg[j].end.value = MaxValue(4)
          /\ arg[i].end.value + 1 < arg[j].start.value
    /\ Len(result[1]) = 3

\* The addresses of r below the start of R, and above the end of R.
Below(r, R) == {a \in RangeAddrs(r) : a.value < R.start.value}

Above(r, R) == {a \in RangeAddrs(r) : a.value > R.end.value}

Meets(r, R) == RangeAddrs(r) \cap RangeAddrs(R) # {}

\* C26: remove_range(R) keeps every stored range that does not overlap R, the
\* ranges of the other version among them; of a stored range that overlaps R
\* it keeps exactly the addresses below R.start and above R.end, each as one
\* range when there are any; a removal that overlaps nothing changes nothing.
C26_RemoveRangeFrame ==
    Called("remove_range") =>
        LET R == arg[1]
            after == out[1].value
        IN /\ \A r \in ranges : ~Meets(r, R) => r \in after
           /\ \A r \in ranges : r.start.version # R.start.version => r \in after
           /\ \A r \in ranges : Meets(r, R) =>
                 /\ Below(r, R) # {} => \E q \in after : RangeAddrs(q) = Below(r, R)
                 /\ Above(r, R) # {} => \E q \in after : RangeAddrs(q) = Above(r, R)
           /\ \A q \in after :
                 /\ RangeAddrs(q) # {}
                 /\ \E r \in ranges :
                       \/ (q = r /\ ~Meets(r, R))
                       \/ (Meets(r, R) /\ RangeAddrs(q) = Below(r, R))
                       \/ (Meets(r, R) /\ RangeAddrs(q) = Above(r, R))
           /\ (\A r \in ranges : ~Meets(r, R)) => after = ranges

\* R lies strictly inside a stored range, which is cut in two, and the set
\* holds a range of the other version.
C26_Witness ==
    /\ Called("remove_range")
    /\ \E r \in ranges : Below(r, arg[1]) # {} /\ Above(r, arg[1]) # {}
    /\ \E r \in ranges : r.start.version # arg[1].start.version
    /\ Cardinality(out[1].value) = 3

\* C30: contains_range(R) is true exactly when every address of R is in the
\* set, and contains_network(N) exactly when every address of N is.
C30_ContainsRangeNetwork ==
    /\ Called("contains_range") =>
          (out[1].value <=> RangeAddrs(arg[1]) \subseteq Members(ranges))
    /\ Called("contains_network") =>
          /\ out[1].outcome = "ok"
          /\ out[1].value <=> NetAddrs(arg[1]) \subseteq Members(ranges)

\* C27: two IPSets with the same addresses are equal under ==, have equal
\* ranges() lists, and compact() leaves each as it is.
C27_Canonical ==
    (out # <<>> /\ Members(ranges) = Members(set_b)) =>
        /\ out[1].eq
        /\ out[1].ranges_eq
        /\ out[1].compact = ranges
        /\ out[1].other_compact = set_b

\* C29: IPNetwork::contains returns, for every prefix length from 0 to the
\* width and both versions, whether the address is of the network's version
\* and agrees with the network address on the first prefix_length bits; a
\* prefix-0 network contains every address of its version.
C29_ContainsExact ==
    Called("contains") =>
        /\ out[1].outcome = "ok"
        /\ out[1].value <=>
              /\ arg[1].version = in_network.network_address.version
              /\ LET low == 2 ^ (Bits(arg[1].version) - in_network.prefix_length)
                 IN arg[1].value \div low = in_network.network_address.value \div low

\* C28: on two networks built with IPNetwork::new, cidr_exclude leaves by one
\* of its first three cases (disjoint, exclude covers base, base contains
\* exclude); the partial-overlap code after them is never reached.
C28_NoPartialOverlap ==
    Called("cidr_exclude") =>
        cidr_exclude_case(arg[1], arg[2], overflow_checks)
            \in {"disjoint", "covered", "inside"}

====
